---- MODULE Spec2Model ----
(***************************************************************************)
(* AvroFilterMiddleware (src/avrofilter/avrofilter.py): a Swift proxy      *)
(* middleware that removes fields from downloaded Avro objects according   *)
(* to the caller's roles.                                                  *)
(*                                                                         *)
(* Python strings are modelled as sequences of one-character strings, so   *)
(* that split, strip, startswith, endswith, replace and slicing are        *)
(* computed as the interpreter computes them.  Values that the code only   *)
(* compares for equality (HTTP method, identity status) are TLA+ strings.  *)
(***************************************************************************)
EXTENDS Integers, Sequences, FiniteSets, TLC

(***************************************************************************)
(* String literals.                                                        *)
(***************************************************************************)
\* Configuration keys.
\* "nostrip_roles"
k_nostrip_roles == <<"n", "o", "s", "t", "r", "i", "p", "_", "r", "o", "l", "e", "s">>
\* "analyst_retain_keys"
k_analyst == <<"a", "n", "a", "l", "y", "s", "t", "_", "r", "e", "t", "a", "i", "n", "_", "k", "e", "y", "s">>
\* "viewer_retain_keys"
k_viewer == <<"v", "i", "e", "w", "e", "r", "_", "r", "e", "t", "a", "i", "n", "_", "k", "e", "y", "s">>
\* "owner_retain_keys"
k_owner == <<"o", "w", "n", "e", "r", "_", "r", "e", "t", "a", "i", "n", "_", "k", "e", "y", "s">>
\* "log_name"
k_log_name == <<"l", "o", "g", "_", "n", "a", "m", "e">>
\* "_retain_keys"
RETAIN_SUFFIX == <<"_", "r", "e", "t", "a", "i", "n", "_", "k", "e", "y", "s">>

\* Configuration values.
\* "ops"
v_ops == <<"o", "p", "s">>
\* "swift"
v_swift == <<"s", "w", "i", "f", "t">>
\* "flowtuple:netacq_country,flowtuple:asn"
v_scenarioA == <<"f", "l", "o", "w", "t", "u", "p", "l", "e", ":", "n", "e", "t", "a", "c", "q", "_", "c", "o", "u", "n", "t", "r", "y", ",", "f", "l", "o", "w", "t", "u", "p", "l", "e", ":", "a", "s", "n">>
\* "badentry,flowtuple:asn"
v_scenarioE == <<"b", "a", "d", "e", "n", "t", "r", "y", ",", "f", "l", "o", "w", "t", "u", "p", "l", "e", ":", "a", "s", "n">>
\* "dns:q:name, dns:qname , ,flowtuple:asn"
v_twocolons == <<"d", "n", "s", ":", "q", ":", "n", "a", "m", "e", ",", " ", "d", "n", "s", ":", "q", "n", "a", "m", "e", " ", ",", " ", ",", "f", "l", "o", "w", "t", "u", "p", "l", "e", ":", "a", "s", "n">>
\* ":asn,flowtuple:asn"
v_emptytype == <<":", "a", "s", "n", ",", "f", "l", "o", "w", "t", "u", "p", "l", "e", ":", "a", "s", "n">>
\* "flowtuple:"
v_emptyfield == <<"f", "l", "o", "w", "t", "u", "p", "l", "e", ":">>
\* "flowtuple:asn"
v_asn == <<"f", "l", "o", "w", "t", "u", "p", "l", "e", ":", "a", "s", "n">>
\* "flowtuple:netacq_country"
v_country == <<"f", "l", "o", "w", "t", "u", "p", "l", "e", ":", "n", "e", "t", "a", "c", "q", "_", "c", "o", "u", "n", "t", "r", "y">>
\* "flowtuple:port"
v_port == <<"f", "l", "o", "w", "t", "u", "p", "l", "e", ":", "p", "o", "r", "t">>
\* "dns:qname"
v_qname == <<"d", "n", "s", ":", "q", "n", "a", "m", "e">>

\* Role names.
\* "admin"
r_admin == <<"a", "d", "m", "i", "n">>
\* "analyst"
r_analyst == <<"a", "n", "a", "l", "y", "s", "t">>
\* "viewer"
r_viewer == <<"v", "i", "e", "w", "e", "r">>
\* "ops"
r_ops == <<"o", "p", "s">>

\* Values of the X-Roles header.
\* "admin"
h_admin == <<"a", "d", "m", "i", "n">>
\* "analyst"
h_analyst == <<"a", "n", "a", "l", "y", "s", "t">>
\* "viewer"
h_viewer == <<"v", "i", "e", "w", "e", "r">>
\* "analyst,viewer"
h_analyst_viewer == <<"a", "n", "a", "l", "y", "s", "t", ",", "v", "i", "e", "w", "e", "r">>
\* " viewer , ops,"
h_viewer_ops == <<" ", "v", "i", "e", "w", "e", "r", " ", ",", " ", "o", "p", "s", ",">>

\* Request paths and the valid API versions.
\* "/v1/a/c/o"
p_object == <<"/", "v", "1", "/", "a", "/", "c", "/", "o">>
\* "/v1/a/c"
p_container == <<"/", "v", "1", "/", "a", "/", "c">>
\* "/v2/a/c/o"
p_badversion == <<"/", "v", "2", "/", "a", "/", "c", "/", "o">>
\* "v1"
V1 == <<"v", "1">>
\* "v1.0"
V1_0 == <<"v", "1", ".", "0">>

\* Content types.
\* "application/vnd.caida."
CT_PREFIX == <<"a", "p", "p", "l", "i", "c", "a", "t", "i", "o", "n", "/", "v", "n", "d", ".", "c", "a", "i", "d", "a", ".">>
\* ".avro"
CT_SUFFIX == <<".", "a", "v", "r", "o">>
\* "application/vnd."
PAT_PREFIX == <<"a", "p", "p", "l", "i", "c", "a", "t", "i", "o", "n", "/", "v", "n", "d", ".">>
\* "application/vnd.caida.flowtuple.avro"
ct_flowtuple == <<"a", "p", "p", "l", "i", "c", "a", "t", "i", "o", "n", "/", "v", "n", "d", ".", "c", "a", "i", "d", "a", ".", "f", "l", "o", "w", "t", "u", "p", "l", "e", ".", "a", "v", "r", "o">>
\* "application/vnd.caida.dns.avro"
ct_dns == <<"a", "p", "p", "l", "i", "c", "a", "t", "i", "o", "n", "/", "v", "n", "d", ".", "c", "a", "i", "d", "a", ".", "d", "n", "s", ".", "a", "v", "r", "o">>
\* "application/vnd.ns.other.avro"
ct_ns_other == <<"a", "p", "p", "l", "i", "c", "a", "t", "i", "o", "n", "/", "v", "n", "d", ".", "n", "s", ".", "o", "t", "h", "e", "r", ".", "a", "v", "r", "o">>
\* "application/vnd.caida.avro"
ct_overlap == <<"a", "p", "p", "l", "i", "c", "a", "t", "i", "o", "n", "/", "v", "n", "d", ".", "c", "a", "i", "d", "a", ".", "a", "v", "r", "o">>
\* "application/vnd.caida.flowtuple.json"
ct_json == <<"a", "p", "p", "l", "i", "c", "a", "t", "i", "o", "n", "/", "v", "n", "d", ".", "c", "a", "i", "d", "a", ".", "f", "l", "o", "w", "t", "u", "p", "l", "e", ".", "j", "s", "o", "n">>

\* Data types and field names.
\* "flowtuple"
t_flowtuple == <<"f", "l", "o", "w", "t", "u", "p", "l", "e">>
\* "dns"
t_dns == <<"d", "n", "s">>
\* "asn"
f_asn == <<"a", "s", "n">>
\* "netacq_country"
f_netacq_country == <<"n", "e", "t", "a", "c", "q", "_", "c", "o", "u", "n", "t", "r", "y">>
\* "port"
f_port == <<"p", "o", "r", "t">>
\* "qname"
f_qname == <<"q", "n", "a", "m", "e">>
\* "q"
f_q == <<"q">>

\* Python's None: a value different from every string.
None == <<"<None>">>

(***************************************************************************)
(* Bounds of the model.                                                    *)
(***************************************************************************)
\* Largest number of chunks the backend's body iterator yields.
MaxChunks == 2

(***************************************************************************)
(* str methods and the swift.common.utils helpers the middleware calls.    *)
(***************************************************************************)
Range(s) == {s[i] : i \in 1..Len(s)}

IsSpace(c) == c = " "

RECURSIVE lstrip(_)
lstrip(s) == IF Len(s) > 0 /\ IsSpace(s[1]) THEN lstrip(Tail(s)) ELSE s

RECURSIVE rstrip(_)
rstrip(s) == IF Len(s) > 0 /\ IsSpace(s[Len(s)]) THEN rstrip(SubSeq(s, 1, Len(s) - 1)) ELSE s

\* str.strip()
strip(s) == rstrip(lstrip(s))

\* Index of the first occurrence of character sep in s, 0 when there is none.
find(s, sep) ==
    IF \E i \in 1..Len(s) : s[i] = sep
    THEN CHOOSE i \in 1..Len(s) : s[i] = sep /\ \A j \in 1..(i - 1) : s[j] # sep
    ELSE 0

\* str.split(sep, maxsplit); maxsplit = -1 splits at every separator.
RECURSIVE splitmax(_, _, _)
splitmax(s, sep, maxsplit) ==
    LET i == find(s, sep)
    IN  IF i = 0 \/ maxsplit = 0
        THEN <<s>>
        ELSE <<SubSeq(s, 1, i - 1)>> \o splitmax(SubSeq(s, i + 1, Len(s)), sep, maxsplit - 1)

\* str.split(sep)
split(s, sep) == splitmax(s, sep, -1)

\* str.startswith(prefix)
startswith(s, prefix) == Len(s) >= Len(prefix) /\ SubSeq(s, 1, Len(prefix)) = prefix

\* str.endswith(suffix)
endswith(s, suffix) ==
    Len(s) >= Len(suffix) /\ SubSeq(s, Len(s) - Len(suffix) + 1, Len(s)) = suffix

\* s[:-n]: the slice end is clamped at 0 when s is shorter than n.
droplast(s, n) == IF Len(s) > n THEN SubSeq(s, 1, Len(s) - n) ELSE <<>>

\* str.replace(old, "", 1): the first occurrence of old is removed.
replace_first(s, old) ==
    LET At(i) == SubSeq(s, i, i + Len(old) - 1) = old
        Starts == {i \in 1..(Len(s) - Len(old) + 1) : At(i)}
    IN  IF Starts = {}
        THEN s
        ELSE LET i == CHOOSE i \in Starts : \A j \in Starts : i <= j
             IN  SubSeq(s, 1, i - 1) \o SubSeq(s, i + Len(old), Len(s))

\* swift.common.utils.list_from_csv: the stripped, non-empty items of a
\* comma separated value; [] for an empty value.
list_from_csv(value) ==
    IF Len(value) = 0
    THEN <<>>
    ELSE LET parts == split(value, ",")
             stripped == [i \in 1..Len(parts) |-> strip(parts[i])]
         IN  SelectSeq(stripped, LAMBDA v : Len(v) > 0)

\* swift.common.utils.split_path(path, 4, 4, True): the four segments
\* (version, account, container, object), the object taking the rest of the
\* path; None stands for the ValueError it raises.
split_path(path) ==
    LET segs == splitmax(path, "/", 4)
        count == Len(segs)
    IN  IF Len(segs[1]) > 0 \/ count < 5 \/ count > 5
           \/ \E i \in 2..5 : Len(segs[i]) = 0
        THEN None
        ELSE SubSeq(segs, 2, 5)

\* swift.common.constraints.valid_api_version
valid_api_version(version) == version \in {V1, V1_0}

(***************************************************************************)
(* Python containers.                                                      *)
(***************************************************************************)
\* The orders in which a dict or a set may be iterated.
Orders(S) == {seq \in [1..Cardinality(S) -> S] : Range(seq) = S}

\* The empty dict.
EmptyDict == <<>>

\* d.setdefault(key, set()).add(x) as lines 102-108 do it for either dict.
DictAdd(d, key, x) ==
    IF key \in DOMAIN d
    THEN [d EXCEPT ![key] = @ \cup {x}]
    ELSE d @@ (key :> {x})

(***************************************************************************)
(* AvroFilterMiddleware.__init__                                           *)
(***************************************************************************)
\* The constructor without line 62: admin is a nostrip role only when the
\* configuration lists it.
BuildNostripRoles_NoAdmin(cf) ==
    IF k_nostrip_roles \in DOMAIN cf
    THEN {strip(x) : x \in Range(split(cf[k_nostrip_roles], ","))}
    ELSE {}

\* self.nostrip_roles
BuildNostripRoles(cf) ==
    (IF k_nostrip_roles \in DOMAIN cf
     THEN {strip(x) : x \in Range(split(cf[k_nostrip_roles], ","))}
     ELSE {})
    \cup {r_admin}

\* The format check taking anything with a colon: len(ts) < 2 rejected.
ValidEntry_AtLeastTwo(ts) == Len(ts) >= 2

\* Whether the split entry ts is taken as a <datatype>:<fieldname> pair.
ValidEntry(ts) == Len(ts) = 2

\* One pass of the loop over list_from_csv(v); pol holds defaultstrip and
\* dontstrip.
AddRetainKey(pol, role, entry) ==
    LET stripped == strip(entry)
        ts == split(stripped, ":")
    IN  IF Len(stripped) = 0
        THEN pol
        ELSE IF ~ValidEntry(ts)
        THEN pol
        ELSE [defaultstrip |-> DictAdd(pol.defaultstrip, ts[1], ts[2]),
              dontstrip |-> [pol.dontstrip EXCEPT ![role] = DictAdd(@, ts[1], ts[2])]]

RECURSIVE AddRetainKeys(_, _, _)
AddRetainKeys(pol, role, entries) ==
    IF entries = <<>>
    THEN pol
    ELSE AddRetainKeys(AddRetainKey(pol, role, Head(entries)), role, Tail(entries))

\* One pass of the loop over conf.iteritems().
AddOption(pol, k, v) ==
    IF ~endswith(k, RETAIN_SUFFIX)
    THEN pol
    ELSE LET role == droplast(k, Len(RETAIN_SUFFIX))
         IN  IF role \in DOMAIN pol.dontstrip
             THEN pol
             ELSE AddRetainKeys(
                      [pol EXCEPT !.dontstrip = @ @@ (role :> EmptyDict)],
                      role, list_from_csv(v))

RECURSIVE AddOptions(_, _, _)
AddOptions(pol, cf, keys) ==
    IF keys = <<>>
    THEN pol
    ELSE AddOptions(AddOption(pol, Head(keys), cf[Head(keys)]), cf, Tail(keys))

\* defaultstrip and dontstrip after the constructor, the options being
\* visited in the order keys.
BuildPolicy(cf, keys) ==
    AddOptions([defaultstrip |-> EmptyDict, dontstrip |-> EmptyDict], cf, keys)

(***************************************************************************)
(* AvroFilterMiddleware.__call__                                           *)
(***************************************************************************)
\* A header that the request does not carry (environ.get gives None).
Absent == "<absent>"

\* split_path succeeded, the API version is valid and the method is a fetch.
Applicable(rq) ==
    LET segs == split_path(rq.path)
    IN  IF segs = None
        THEN FALSE
        ELSE valid_api_version(segs[1]) /\ rq.method \in {"GET", "HEAD"}

\* The roles header trusted whatever the identity status.
CallerRoles_Unchecked(rq) ==
    Range(list_from_csv(IF rq.roles = None THEN <<>> ELSE rq.roles))

\* The roles that apply to the user making the request.
CallerRoles(rq) ==
    IF rq.identity_status = "Confirmed"
       \/ rq.service_identity_status \in {Absent, "Confirmed"}
    THEN Range(list_from_csv(IF rq.roles = None THEN <<>> ELSE rq.roles))
    ELSE {}

\* The caller has one of the "nostrip" roles.
HasNostripRole(rs, nostrip) == rs \cap nostrip # {}

\* dtype of the response's Content-Type, None when it is not a CAIDA avro
\* content type.
DataType(conttype) ==
    IF conttype = None
    THEN None
    ELSE IF ~startswith(conttype, CT_PREFIX)
    THEN None
    ELSE IF ~endswith(conttype, CT_SUFFIX)
    THEN None
    ELSE droplast(replace_first(conttype, CT_PREFIX), 5)

\* The set difference with its operands swapped.
SubtractRole_Swapped(tostrip, r, dtype, dont) ==
    IF r \notin DOMAIN dont
    THEN tostrip
    ELSE IF dtype \notin DOMAIN dont[r]
    THEN tostrip
    ELSE dont[r][dtype] \ tostrip

\* One pass of the loop over the caller's roles.
SubtractRole(tostrip, r, dtype, dont) ==
    IF r \notin DOMAIN dont
    THEN tostrip
    ELSE IF dtype \notin DOMAIN dont[r]
    THEN tostrip
    ELSE tostrip \ dont[r][dtype]

\* The strip set after the loop, the roles being visited in the order given.
RECURSIVE StripSet(_, _, _, _)
StripSet(tostrip, order, dtype, dont) ==
    IF order = <<>>
    THEN tostrip
    ELSE StripSet(SubtractRole(tostrip, Head(order), dtype, dont),
                  Tail(order), dtype, dont)

\* The response object req.get_response(self.app) gives: the backend's
\* headers, its body iterator as app_iter, nothing read from it yet.
get_response(be) ==
    [content_type |-> be.content_type,
     headers |-> be.headers,
     app_iter |-> [kind |-> "backend", fields_to_strip |-> {}],
     read |-> 0]

\* The Etag left in place.
DeleteEtag_Kept(headers) == headers

\* if 'Etag' in resp.headers: del(resp.headers['Etag'])
DeleteEtag(headers) == headers \ {"Etag"}

\* Reading resp.body: swob's Response.body joins what is left of app_iter
\* into one string, so every chunk of the backend's iterator is read.
body__get(resp, chunks) == [resp EXCEPT !.read = chunks]

\* Assigning resp.app_iter: swob's setter drops the Content-Length header
\* when the new value is not a list, then installs the iterable.
app_iter__set(resp, value) ==
    [resp EXCEPT !.headers = @ \ {"Content-Length"}, !.app_iter = value]

\* The parser installed under the Etag test: a response without an Etag
\* keeps the backend's iterator.
StripResponse_UnderEtag(resp, tostrip, chunks) ==
    IF "Etag" \in resp.headers
    THEN app_iter__set(
             body__get([resp EXCEPT !.headers = DeleteEtag(@)], chunks),
             [kind |-> "GenericStrippingAvroParser", fields_to_strip |-> tostrip])
    ELSE resp

\* Lines 171-183: the Etag goes, the parser is built over the old iterator,
\* the whole body and tostrip, and it replaces the response iterable.
StripResponse(resp, tostrip, chunks) ==
    LET noetag == [resp EXCEPT !.headers = DeleteEtag(@)]
        bodyread == body__get(noetag, chunks)
        x == [kind |-> "GenericStrippingAvroParser", fields_to_strip |-> tostrip]
    IN  app_iter__set(bodyread, x)

\* The handler: the caller's roles and the response it returns; order is the
\* order in which the roles are visited.
Handle(rq, be, order, nostrip, defstrip, dont) ==
    IF ~Applicable(rq)
    THEN [roles |-> {}, resp |-> get_response(be)]
    ELSE LET rs == CallerRoles(rq)
             resp == get_response(be)
             dtype == DataType(resp.content_type)
         IN  IF HasNostripRole(rs, nostrip)
             THEN [roles |-> rs, resp |-> resp]
             ELSE IF dtype = None
             THEN [roles |-> rs, resp |-> resp]
             ELSE IF dtype \notin DOMAIN defstrip
             THEN [roles |-> rs, resp |-> resp]
             ELSE [roles |-> rs,
                   resp |-> StripResponse(
                                resp,
                                StripSet(defstrip[dtype], order, dtype, dont),
                                be.chunks)]

(***************************************************************************)
(* Configurations, requests and backend responses.                         *)
(***************************************************************************)
\* A conf dict from (key, value) pairs.
ConfOf(pairs) == [k \in {p[1] : p \in pairs} |-> (CHOOSE p \in pairs : p[1] = k)[2]]

Configs ==
    { ConfOf({<<k_log_name, v_swift>>}),
      ConfOf({<<k_analyst, v_scenarioA>>}),
      ConfOf({<<k_nostrip_roles, v_ops>>, <<k_analyst, v_scenarioE>>,
              <<k_viewer, v_qname>>}),
      ConfOf({<<k_analyst, v_twocolons>>, <<k_viewer, v_asn>>}),
      ConfOf({<<k_log_name, v_swift>>, <<k_analyst, v_emptytype>>}),
      ConfOf({<<k_nostrip_roles, v_ops>>, <<k_analyst, v_emptyfield>>,
              <<k_viewer, v_asn>>}),
      ConfOf({<<k_analyst, v_asn>>, <<k_viewer, v_country>>, <<k_owner, v_port>>}) }

Methods == {"GET", "HEAD", "PUT"}
Paths == {p_object, p_container, p_badversion}
IdentityStatuses == {"Confirmed", "Invalid"}
ServiceIdentityStatuses == {Absent, "Confirmed", "Invalid"}
RolesHeaders == {None, h_admin, h_analyst, h_viewer, h_analyst_viewer, h_viewer_ops}
ContentTypes == {None, ct_flowtuple, ct_dns, ct_ns_other, ct_overlap, ct_json}
HeaderSets == {{}, {"Etag"}, {"Etag", "Content-Length"}}

\* Every method on the object path, and a GET on the other paths.
Targets == {<<m, p_object>> : m \in Methods} \cup {<<"GET", p>> : p \in Paths}

Requests ==
    {[method |-> t[1], path |-> t[2], identity_status |-> i,
      service_identity_status |-> s, roles |-> h] :
         t \in Targets, i \in IdentityStatuses, s \in ServiceIdentityStatuses,
         h \in RolesHeaders}

BackendResponses ==
    [content_type : ContentTypes, headers : HeaderSets, chunks : 0..MaxChunks]

(***************************************************************************)
(* The state machine.                                                      *)
(***************************************************************************)
VARIABLES
    conf,           \* the configuration the filter was built from
    nostrip_roles,  \* self.nostrip_roles
    defaultstrip,   \* self.defaultstrip
    dontstrip,      \* self.dontstrip
    phase,          \* "idle", or "responded" once __call__ has returned
    req,            \* the request in hand
    backend,        \* what the rest of the pipeline answered
    roles,          \* the roles __call__ found for the caller
    resp,           \* the response __call__ returned
    pulled          \* chunks the server has asked resp.app_iter for

vars == <<conf, nostrip_roles, defaultstrip, dontstrip, phase, req, backend,
          roles, resp, pulled>>

policy == <<conf, nostrip_roles, defaultstrip, dontstrip>>

\* The filter as filter_factory builds it, for some configuration and some
\* iteration order of its options.
Init ==
    /\ conf \in Configs
    /\ nostrip_roles = BuildNostripRoles(conf)
    /\ \E keys \in Orders(DOMAIN conf) :
           LET pol == BuildPolicy(conf, keys)
           IN  /\ defaultstrip = pol.defaultstrip
               /\ dontstrip = pol.dontstrip
    /\ phase = "idle"
    /\ req = None
    /\ backend = None
    /\ roles = {}
    /\ resp = None
    /\ pulled = 0

\* One request goes through __call__.
call ==
    /\ phase = "idle"
    /\ \E rq \in Requests, be \in BackendResponses :
         \E order \in Orders(IF Applicable(rq) THEN CallerRoles(rq) ELSE {}) :
           LET out == Handle(rq, be, order, nostrip_roles, defaultstrip, dontstrip)
           IN  /\ req' = rq
               /\ backend' = be
               /\ roles' = out.roles
               /\ resp' = out.resp
    /\ phase' = "responded"
    /\ pulled' = 0
    /\ UNCHANGED policy

\* The server asks the returned response's app_iter for its next chunk.  The
\* backend's iterator reads one chunk per chunk asked; the parser was handed
\* the body already read.
next_chunk ==
    /\ phase = "responded"
    /\ pulled < backend.chunks
    /\ pulled' = pulled + 1
    /\ resp' = IF resp.app_iter.kind = "backend"
               THEN [resp EXCEPT !.read = @ + 1]
               ELSE resp
    /\ UNCHANGED <<policy, phase, req, backend, roles>>

\* The response has been sent; the filter waits for the next request.
close ==
    /\ phase = "responded"
    /\ phase' = "idle"
    /\ req' = None
    /\ backend' = None
    /\ roles' = {}
    /\ resp' = None
    /\ pulled' = 0
    /\ UNCHANGED policy

Next == call \/ next_chunk \/ close


(***************************************************************************)
(* Vocabulary of the properties.                                           *)
(***************************************************************************)
Responded == phase = "responded"

Stripped == Responded /\ resp.app_iter.kind = "GenericStrippingAvroParser"

\* The response is the backend's: same iterator, same headers.
Unmodified ==
    /\ resp.app_iter.kind = "backend"
    /\ resp.headers = backend.headers
    /\ resp.content_type = backend.content_type

\* The identity layer vouches for the request's role claims.
Vouched ==
    \/ req.identity_status = "Confirmed"
    \/ req.service_identity_status = Absent
    \/ req.service_identity_status = "Confirmed"

\* The role names the roles header lists.
HeaderRoles == IF req.roles = None THEN {} ELSE Range(list_from_csv(req.roles))

\* The request bears role r.
Bears(r) == Vouched /\ r \in HeaderRoles

\* The type tag of the response in hand.
RespType == DataType(backend.content_type)

Tracked == RespType \in DOMAIN defaultstrip

\* defaultStrip[type] minus the union of the grants of the caller's roles.
Granted ==
    UNION {dontstrip[r][RespType] :
               r \in {q \in roles \cap DOMAIN dontstrip : RespType \in DOMAIN dontstrip[q]}}

ExpectedStripSet == defaultstrip[RespType] \ Granted

\* A fetch on a four-segment path by a caller without a no-strip role, for a
\* tracked type.
Gated ==
    /\ Responded
    /\ Applicable(req)
    /\ roles \cap nostrip_roles = {}
    /\ Tracked

\* Some <role>_retain_keys value lists the entry <t>:<f>.
Named(t, f) ==
    \E k \in DOMAIN conf :
        /\ endswith(k, RETAIN_SUFFIX)
        /\ \E e \in Range(split(conf[k], ",")) : strip(e) = t \o <<":">> \o f

\* The (type, field) pairs of a dict of sets.
Pairs(d) == UNION {{<<t, f>> : f \in d[t]} : t \in DOMAIN d}

(***************************************************************************)
(* C1                                                                      *)
(***************************************************************************)
\* The role names the nostrip_roles option lists, and admin.
NoStripRoles ==
    {r_admin} \cup
        (IF k_nostrip_roles \in DOMAIN conf
         THEN {strip(x) : x \in Range(split(conf[k_nostrip_roles], ","))}
         ELSE {})

\* C1: a request bearing a role of NoStripRoles (the configured
\* nostrip_roles, or the built-in admin role) gets the backend's response
\* with its body iterator and every header in place, whatever its type.
C1_NoStripRoleUnredacted ==
    Responded => \A r \in NoStripRoles : Bears(r) => Unmodified

\* A caller with the configured role ops fetched an object of a tracked type
\* and got its Etag and its iterator back.
C1_Witness ==
    /\ Responded
    /\ Applicable(req)
    /\ r_ops \in nostrip_roles
    /\ Bears(r_ops)
    /\ Tracked
    /\ "Etag" \in resp.headers
    /\ resp.app_iter.kind = "backend"

(***************************************************************************)
(* C2                                                                      *)
(***************************************************************************)
\* C2: when redaction is necessary (the gates passed and the resolved strip
\* set is not empty) the response's body is the parser built over exactly
\* that strip set, never the backend's iterator.
C2_NecessaryRedactionApplied ==
    (Gated /\ ExpectedStripSet # {}) =>
        resp.app_iter = [kind |-> "GenericStrippingAvroParser",
                         fields_to_strip |-> ExpectedStripSet]

\* A viewer fetched a flowtuple object of which asn and netacq_country are
\* to be stripped, from a backend response without an Etag.
C2_Witness ==
    /\ Gated
    /\ ExpectedStripSet = {f_asn, f_netacq_country}
    /\ r_viewer \in roles
    /\ "Etag" \notin backend.headers
    /\ Stripped

(***************************************************************************)
(* C3                                                                      *)
(***************************************************************************)
\* conttype is application/vnd.<namespace>.<type>.avro for some namespace.
MatchesPattern(conttype) ==
    /\ Len(conttype) >= Len(PAT_PREFIX) + Len(CT_SUFFIX)
    /\ startswith(conttype, PAT_PREFIX)
    /\ endswith(conttype, CT_SUFFIX)
    /\ LET mid == SubSeq(conttype, Len(PAT_PREFIX) + 1, Len(conttype) - Len(CT_SUFFIX))
       IN  \E i \in 2..Len(mid) : mid[i] = "."

\* One of the applicability checks fails for the request in hand.
CheckFails ==
    \/ split_path(req.path) = None
    \/ ~Applicable(req)
    \/ backend.content_type = None
    \/ ~MatchesPattern(backend.content_type)
    \/ ~Tracked

\* C3: when an applicability check fails (path, API version, method,
\* Content-Type absent or not of the pattern, type without a policy entry)
\* the backend's response is returned with its body iterator and its Etag
\* and length headers in place.
C3_InapplicablePassesThrough ==
    (Responded /\ CheckFails) => Unmodified

(***************************************************************************)
(* C4                                                                      *)
(***************************************************************************)
\* C4: a response whose body is the redacted stream carries neither the Etag
\* nor the Content-Length of the original body.
C4_StaleHeadersRemoved ==
    Stripped => resp.headers \cap {"Etag", "Content-Length"} = {}

\* The backend's response had both headers and its body was replaced.
C4_Witness ==
    /\ Stripped
    /\ {"Etag", "Content-Length"} \subseteq backend.headers
    /\ resp.app_iter.fields_to_strip # {}

(***************************************************************************)
(* C5                                                                      *)
(***************************************************************************)
\* C5: the strip set the resolver computes is defaultStrip[type] minus the
\* union of dontstrip[role][type] over the caller's roles that have an entry
\* for the type, in whichever order the roles are visited.
C5_StripSetIsDefaultMinusGrants ==
    Stripped => resp.app_iter.fields_to_strip = ExpectedStripSet

\* Two roles of the caller grant different fields of the type and a third
\* field stays in the strip set.
C5_Witness ==
    /\ Stripped
    /\ Cardinality({q \in roles \cap DOMAIN dontstrip : RespType \in DOMAIN dontstrip[q]}) = 2
    /\ dontstrip[r_analyst][RespType] # dontstrip[r_viewer][RespType]
    /\ resp.app_iter.fields_to_strip = {f_port}

(***************************************************************************)
(* C6                                                                      *)
(***************************************************************************)
\* C6: a field that no role's retain list names for a type is in no strip
\* set: not in defaultstrip[type], and not in the set handed to the parser
\* for a response of that type, whoever the caller is.
C6_UnnamedFieldsNeverStripped ==
    /\ \A p \in Pairs(defaultstrip) : Named(p[1], p[2])
    /\ Stripped => \A f \in resp.app_iter.fields_to_strip : Named(RespType, f)

\* A dns object was stripped of qname for a caller whose identity is not
\* vouched for, under a configuration whose retain lists never name dns:q.
C6_Witness ==
    /\ Stripped
    /\ ~Vouched
    /\ RespType = t_dns
    /\ ~Named(t_dns, f_q)
    /\ resp.app_iter.fields_to_strip = {f_qname}

(***************************************************************************)
(* C7                                                                      *)
(***************************************************************************)
\* C7: when the type is tracked and the caller's roles retain every
\* default-strip field (the resolved strip set is empty), the response keeps
\* its original body and its Etag and length headers.
C7_EmptyStripSetPassesThrough ==
    (Gated /\ ExpectedStripSet = {}) => Unmodified

(***************************************************************************)
(* C8                                                                      *)
(***************************************************************************)
\* What the caller sees of a response.
Outcome(rsp) == [content_type |-> rsp.content_type, headers |-> rsp.headers,
                 app_iter |-> rsp.app_iter]

\* C8: the caller's roles are the roles header's when the identity status
\* is Confirmed or the service identity status is absent or Confirmed, and
\* empty otherwise; then the roles header has no influence: no exemption,
\* the whole defaultStrip[type] is stripped, and any other roles header
\* would have given the same response.
C8_RolesOnlyFromVouchedIdentity ==
    (Responded /\ Applicable(req)) =>
        /\ roles = IF Vouched THEN HeaderRoles ELSE {}
        /\ ~Vouched =>
            /\ Tracked =>
                 resp.app_iter = [kind |-> "GenericStrippingAvroParser",
                                  fields_to_strip |-> defaultstrip[RespType]]
            /\ \A h \in RolesHeaders :
                 Outcome(Handle([req EXCEPT !.roles = h], backend, <<>>,
                                nostrip_roles, defaultstrip, dontstrip).resp)
                     = Outcome(resp)

\* A request claiming the admin role without a vouched identity had its
\* flowtuple object stripped.
C8_Witness ==
    /\ Responded
    /\ Applicable(req)
    /\ ~Vouched
    /\ r_admin \in HeaderRoles
    /\ RespType = t_flowtuple
    /\ Stripped

(***************************************************************************)
(* C9                                                                      *)
(***************************************************************************)
\* The position of the colon of an entry with exactly one colon, which has a
\* character on either side.
WellFormed(e) ==
    /\ Cardinality({i \in 1..Len(e) : e[i] = ":"}) = 1
    /\ find(e, ":") \in 2..(Len(e) - 1)

\* The (type, field) pairs of the well-formed entries of a retain_keys value.
WellFormedPairs(v) ==
    {<<SubSeq(e, 1, find(e, ":") - 1), SubSeq(e, find(e, ":") + 1, Len(e))>> :
         e \in {s \in {strip(x) : x \in Range(split(v, ","))} : WellFormed(s)}}

RetainOptions == {k \in DOMAIN conf : endswith(k, RETAIN_SUFFIX)}

\* C9: the policy holds exactly the entries of the <role>_retain_keys values
\* that split on ':' into two non-empty parts; every other entry is skipped
\* and the valid entries of the same value are applied.
C9_OnlyWellFormedEntriesApplied ==
    /\ \A k \in RetainOptions :
           Pairs(dontstrip[droplast(k, 12)]) = WellFormedPairs(conf[k])
    /\ Pairs(defaultstrip) = UNION {WellFormedPairs(conf[k]) : k \in RetainOptions}

(***************************************************************************)
(* C10                                                                     *)
(***************************************************************************)
\* C10: the redacted stream is pull-driven: of the original body no more
\* chunks have been read than the consumer has asked output chunks for; in
\* particular none before the first one is asked for.
C10_PullDriven ==
    Stripped => resp.read <= pulled

Spec == Init /\ [][Next]_vars
====
